---- MODULE Spec2Model ----
(***************************************************************************)
(* Model of gem_updated.py, the Tramontina invoice reconciliation script. *)
(*                                                                         *)
(* Strings are sequences of one-character strings, so that strip, replace, *)
(* lower-casing, substring search and the digit filter of the code are     *)
(* computed character by character.  Numbers are fixed-point: an integer n *)
(* stands for the float n/10 (one decimal digit), which is exact for every *)
(* text and value the model feeds to the program.                          *)
(***************************************************************************)
EXTENDS Integers, Sequences, FiniteSets

\* A value that may be None is None or Some(x); Val gives x back.
None == <<>>
Some(x) == <<x>>
Val(o) == o[1]

\* pandas' NaN for an empty spreadsheet cell (no string: its one element is
\* not a character).
NaN == <<"NaN">>

(***************************************************************************)
(* Bounds of the model.                                                    *)
(***************************************************************************)
\* Data rows below the header row of the uploaded sheet.
MaxDataRows == 2
\* Recognized documents in one service result.
MaxDocs == 2
\* Entries of the "Items" arrays of one service result, all documents together.
MaxItems == 2

(***************************************************************************)
(* String helpers: str.strip, str.replace, str.lower, `in`, re.sub.        *)
(***************************************************************************)
Abs(n) == IF n < 0 THEN -n ELSE n

Digits == {"0", "1", "2", "3", "4", "5", "6", "7", "8", "9"}

DigitVal(c) ==
    CASE c = "0" -> 0 [] c = "1" -> 1 [] c = "2" -> 2 [] c = "3" -> 3
      [] c = "4" -> 4 [] c = "5" -> 5 [] c = "6" -> 6 [] c = "7" -> 7
      [] c = "8" -> 8 [] c = "9" -> 9

IsSpace(c) == c = " "

RECURSIVE LStrip(_)
LStrip(s) ==
    IF s # <<>> /\ IsSpace(Head(s)) THEN LStrip(Tail(s)) ELSE s

RECURSIVE RStrip(_)
RStrip(s) ==
    IF s # <<>> /\ IsSpace(s[Len(s)]) THEN RStrip(SubSeq(s, 1, Len(s) - 1)) ELSE s

\* str.strip()
Strip(s) == RStrip(LStrip(s))

\* s.startswith(p)
StartsWith(s, p) == Len(s) >= Len(p) /\ SubSeq(s, 1, Len(p)) = p

\* p in s
Contains(s, p) == \E i \in 0..(Len(s) - Len(p)) : SubSeq(s, i + 1, i + Len(p)) = p

\* s.replace(p, ''), left to right, non-overlapping
RECURSIVE Remove(_, _)
Remove(s, p) ==
    IF s = <<>> THEN <<>>
    ELSE IF StartsWith(s, p) THEN Remove(SubSeq(s, Len(p) + 1, Len(s)), p)
    ELSE <<Head(s)>> \o Remove(Tail(s), p)

LowerChar(c) ==
    CASE c = "A" -> "a" [] c = "G" -> "g" [] c = "H" -> "h" [] c = "K" -> "k"
      [] c = "L" -> "l" [] c = "N" -> "n" [] c = "O" -> "o" [] c = "Q" -> "q"
      [] c = "R" -> "r" [] c = "S" -> "s" [] c = "T" -> "t" [] c = "U" -> "u"
      [] c = "Y" -> "y"
      [] OTHER -> c

\* str.lower()
Lower(s) == [i \in 1..Len(s) |-> LowerChar(s[i])]

\* re.sub(r'[^0-9.]', '', s)
KeepNumeric(s) == SelectSeq(s, LAMBDA c : c \in Digits \/ c = ".")

RECURSIVE DigitsValue(_)
DigitsValue(s) ==
    IF s = <<>> THEN 0 ELSE DigitsValue(SubSeq(s, 1, Len(s) - 1)) * 10 + DigitVal(s[Len(s)])

NumDots(s) == Len(SelectSeq(s, LAMBDA c : c = "."))

\* Whether float(cleaned) succeeds on a string of digits and dots: at most
\* one dot and at least one digit.
FloatParses(cleaned) == NumDots(cleaned) <= 1 /\ Len(cleaned) > NumDots(cleaned)

\* float(cleaned), in tenths, for a string float() accepts.  Digits after
\* the first decimal are not representable and no modelled text has them.
FloatValue(cleaned) ==
    LET dot == IF NumDots(cleaned) = 0 THEN Len(cleaned) + 1
               ELSE CHOOSE i \in 1..Len(cleaned) : cleaned[i] = "."
        ip == SubSeq(cleaned, 1, dot - 1)
        fp == SubSeq(cleaned, dot + 1, Len(cleaned))
    IN  DigitsValue(ip) * 10 + (IF fp = <<>> THEN 0 ELSE DigitVal(fp[1]))

(***************************************************************************)
(* clean_num_strict.  A field of the service result is None or Some of a   *)
(* record [value_number, value_currency, content]; value_number and        *)
(* value_currency are None or Some signed amount in tenths, content is     *)
(* None or Some string.                                                    *)
(***************************************************************************)
Field(num, cur, content) ==
    Some([value_number |-> num, value_currency |-> cur, content |-> content])

\* str(content): None prints as "None"
StrOf(content) == IF content = None THEN <<"N", "o", "n", "e">> ELSE Val(content)

clean_num_strict(field) ==
    IF field = None THEN 0
    ELSE IF Val(field).value_number # None THEN Abs(Val(Val(field).value_number))
    ELSE IF Val(field).value_currency # None THEN Abs(Val(Val(field).value_currency))
    ELSE LET cleaned == KeepNumeric(StrOf(Val(field).content))
         IN  IF cleaned # <<>> /\ FloatParses(cleaned) THEN FloatValue(cleaned) ELSE 0

(***************************************************************************)
(* The uploaded spreadsheet.  A sheet is a sequence of rows; a row maps    *)
(* the column positions the program reads (and one more) to a cell; a cell *)
(* is NaN or a string.                                                     *)
(***************************************************************************)
CodeCol == 0
QtyCol == 4
TaxCol == 10
TotalCol == 11
\* A column the program does not read by position.
OtherCol == 1

Cols == {CodeCol, OtherCol, QtyCol, TaxCol, TotalCol}

Row(code, other, qty, tax, total) ==
    [c \in Cols |->
        CASE c = CodeCol -> code [] c = OtherCol -> other [] c = QtyCol -> qty
          [] c = TaxCol -> tax [] c = TotalCol -> total]

\* astype(str) / str(value) of a cell
CellStr(cell) == IF cell = NaN THEN <<"n", "a", "n">> ELSE cell

\* r.astype(str).str.contains('SKU').any()
RowHasMarker(row) == \E c \in Cols : Contains(CellStr(row[c]), <<"S", "K", "U">>)

\* raw_df[raw_df.apply(...)].index, 0-based
HeaderRows(raw_df) == {i \in 0..(Len(raw_df) - 1) : RowHasMarker(raw_df[i + 1])}

\* .index[0]
FirstOf(S) == CHOOSE i \in S : \A j \in S : i <= j

clean_currency(value) ==
    IF value = NaN THEN 0
    ELSE LET cleaned == KeepNumeric(CellStr(value))
         IN  IF FloatParses(cleaned) THEN FloatValue(cleaned) ELSE 0

\* .astype(str).str.replace('TR-', '', regex=False).str.strip()
CleanCode(cell) == Strip(Remove(CellStr(cell), <<"T", "R", "-">>))

CleanRow(row) ==
    [Material_Code |-> CleanCode(row[CodeCol]),
     Qty_EXCEL     |-> clean_currency(row[QtyCol]),
     Tax_EXCEL     |-> clean_currency(row[TaxCol]),
     Total_EXCEL   |-> clean_currency(row[TotalCol])]

\* The rows below header row idx, cleaned, without the rows whose code is 'nan'.
CleanedItems(raw_df, idx) ==
    LET df == SubSeq(raw_df, idx + 2, Len(raw_df))
        cleaned_items == [i \in 1..Len(df) |-> CleanRow(df[i])]
    IN  SelectSeq(cleaned_items, LAMBDA r : r.Material_Code # <<"n", "a", "n">>)

\* A sheet without marker row read as if its first row were the header.
load_and_clean_excel_default_header(file) ==
    [error |-> None,
     df    |-> Some(CleanedItems(file, IF HeaderRows(file) = {} THEN 0 ELSE FirstOf(HeaderRows(file))))]

\* load_and_clean_excel: .index[0] of an empty index raises IndexError.
load_and_clean_excel(file) ==
    IF HeaderRows(file) = {}
    THEN [error |-> Some("IndexError"), df |-> None]
    ELSE [error |-> None, df |-> Some(CleanedItems(file, FirstOf(HeaderRows(file))))]

(***************************************************************************)
(* Sheets tried: a title row, an optional header row, and up to            *)
(* MaxDataRows data rows.                                                  *)
(***************************************************************************)
TitleRow == Row(<<"I", "N", "V">>, NaN, NaN, NaN, NaN)
HeaderRow == Row(<<"C", "o", "d", "e">>, <<"S", "K", "U">>, <<"Q">>, <<"T">>, <<"A">>)
\* 'TR-A1 ': quantity 2.1, tax 1, total 'R2'
RowA1 == Row(<<"T", "R", "-", "A", "1", " ">>, NaN, <<"2", ".", "1">>, <<"1">>, <<"R", "2">>)
\* a 'Total' footer row of the sheet: total '6..' does not parse
RowTotal == Row(<<"T", "o", "t", "a", "l">>, NaN, <<"4">>, <<"1">>, <<"6", ".", ".">>)
\* a row without code and without tax
RowNoCode == Row(NaN, NaN, <<"1">>, NaN, <<"1">>)

DataRows == {RowA1, RowTotal, RowNoCode}

SeqsUpTo(S, n) == UNION {[1..k -> S] : k \in 0..n}

ExcelFiles ==
    {<<TitleRow>> \o hdr \o data :
        hdr \in {<<>>, <<HeaderRow>>},
        data \in SeqsUpTo(DataRows, MaxDataRows)}

(***************************************************************************)
(* extract_gross_total_qty: re.search of                                   *)
(*   Gross\s+Total\s*[:\-]?\s*(\d+)   and then   Total\s+Qty\s*[:\-]?\s*(\d+) *)
(* with re.IGNORECASE.  Whitespace is the blank.                           *)
(***************************************************************************)
\* The first position >= i of s that holds no blank (Len(s) + 1 if none).
RECURSIVE SkipSpaces(_, _)
SkipSpaces(s, i) ==
    IF i <= Len(s) /\ IsSpace(s[i]) THEN SkipSpaces(s, i + 1) ELSE i

\* The first position >= i of s that holds no digit.
RECURSIVE SkipDigits(_, _)
SkipDigits(s, i) ==
    IF i <= Len(s) /\ s[i] \in Digits THEN SkipDigits(s, i + 1) ELSE i

\* Where the digits of group 1 start when  w1\s+w2\s*[:\-]?\s*(\d+)  matches
\* s at position i, else 0.
LabelMatch(s, i, w1, w2) ==
    LET low == Lower(s)
        a == i + Len(w1)
        b == SkipSpaces(s, a)
        c == b + Len(w2)
        d == SkipSpaces(s, c)
        e == IF d <= Len(s) /\ s[d] \in {":", "-"} THEN d + 1 ELSE d
        f == SkipSpaces(s, e)
    IN  IF /\ a - 1 <= Len(s) /\ SubSeq(low, i, a - 1) = w1
           /\ b > a
           /\ c - 1 <= Len(s) /\ SubSeq(low, b, c - 1) = w2
           /\ f <= Len(s) /\ s[f] \in Digits
        THEN f ELSE 0

\* re.search(...): None, or Some(float(match.group(1))) of the leftmost match
LabelSearch(s, w1, w2) ==
    LET hits == {i \in 1..Len(s) : LabelMatch(s, i, w1, w2) # 0}
    IN  IF hits = {} THEN None
        ELSE LET f == LabelMatch(s, FirstOf(hits), w1, w2)
             IN  Some(DigitsValue(SubSeq(s, f, SkipDigits(s, f) - 1)) * 10)

extract_gross_total_qty(full_content) ==
    IF full_content = None \/ Val(full_content) = <<>> THEN 0
    ELSE LET match == LabelSearch(Val(full_content), <<"g", "r", "o", "s", "s">>, <<"t", "o", "t", "a", "l">>)
             match_alt == LabelSearch(Val(full_content), <<"t", "o", "t", "a", "l">>, <<"q", "t", "y">>)
         IN  IF match # None THEN Val(match)
             ELSE IF match_alt # None THEN Val(match_alt) ELSE 0

(***************************************************************************)
(* extract_pdf_data, one entry of an "Items" array at a time.  An item is  *)
(* [ProductCode, Amount], each a field or None.                            *)
(***************************************************************************)
\* not p_code_field or not p_code_field.content
NoProductCode(item) ==
    \/ item.ProductCode = None
    \/ Val(item.ProductCode).content = None
    \/ Val(Val(item.ProductCode).content) = <<>>

\* p_code_field.content.strip()
ItemCode(item) == Strip(Val(Val(item.ProductCode).content))

\* excel_df['Material Code'], the column handed to extract_pdf_data
MaterialCodes(df) == [i \in 1..Len(df) |-> df[i].Material_Code]

\* The filter left out: every code passes.
CrossReferenceKeepAll(m_code, excel_material_codes) == TRUE

\* m_code in excel_material_codes.values
CrossReferenceKeep(m_code, excel_material_codes) ==
    \E i \in 1..Len(excel_material_codes) : excel_material_codes[i] = m_code

\* The footer test without the amount.
IsFooterNoiseCodeOnly(m_code, amt) == Contains(Lower(m_code), <<"t", "o", "t", "a", "l">>)

\* "total" in m_code.lower() or amt == 0
IsFooterNoise(m_code, amt) ==
    Contains(Lower(m_code), <<"t", "o", "t", "a", "l">>) \/ amt = 0

\* Whether the loop body reaches all_line_items.append for this item.
ItemKept(item, excel_material_codes) ==
    /\ ~NoProductCode(item)
    /\ CrossReferenceKeep(ItemCode(item), excel_material_codes)
    /\ ~IsFooterNoise(ItemCode(item), clean_num_strict(item.Amount))

LineItem(item) ==
    [Material_Code |-> ItemCode(item), Total_PDF |-> clean_num_strict(item.Amount)]

\* The footer figures kept from the first document that has them.
FooterFirstWins(summary, invoice) ==
    [summary EXCEPT
        !.Total_Tax_Footer = IF @ # 0 THEN @ ELSE clean_num_strict(invoice.TotalTax),
        !.Grand_Total_Footer = IF @ # 0 THEN @ ELSE clean_num_strict(invoice.InvoiceTotal)]

\* The two assignments that end the body of `for invoice in result.documents`.
FooterOfDocument(summary, invoice) ==
    [summary EXCEPT
        !.Total_Tax_Footer = clean_num_strict(invoice.TotalTax),
        !.Grand_Total_Footer = clean_num_strict(invoice.InvoiceTotal)]

\* DataFrame.drop_duplicates(): the first of equal rows stays, in order.
drop_duplicates(rows) ==
    LET keep == {i \in 1..Len(rows) : \A j \in 1..(i - 1) : rows[j] # rows[i]}
        Nth(k) == CHOOSE i \in keep : Cardinality({j \in keep : j < i}) = k - 1
    IN  [k \in 1..Cardinality(keep) |-> rows[Nth(k)]]

(***************************************************************************)
(* What the document-understanding service may return.                     *)
(***************************************************************************)
Str(s) == Some(s)

\* ' A1 ' with a structured number 2.0
ItemA1 == [ProductCode |-> Field(None, None, Str(<<" ", "A", "1", " ">>)),
           Amount |-> Field(Some(20), None, Str(<<"2">>))]
\* 'A1' again, amount read from the text '-2.1'
ItemA1Text == [ProductCode |-> Field(None, None, Str(<<"A", "1">>)),
               Amount |-> Field(None, None, Str(<<"-", "2", ".", "1">>))]
\* a row of the HSN table, currency amount -5.0
ItemHSN == [ProductCode |-> Field(None, None, Str(<<"H", "S", "N">>)),
            Amount |-> Field(None, Some(-50), Str(<<"5">>))]
\* a footer row read as an item
ItemTotal == [ProductCode |-> Field(None, None, Str(<<"T", "o", "t", "a", "l">>)),
              Amount |-> Field(Some(40), None, None)]
\* 'A1' with an amount that reads as 0.0
ItemA1Zero == [ProductCode |-> Field(None, None, Str(<<"A", "1">>)),
               Amount |-> Field(None, None, Str(<<"1", ".", "2", ".", "3">>))]
\* no product code
ItemNoCode == [ProductCode |-> None, Amount |-> Field(Some(20), None, None)]

Items == {ItemA1, ItemA1Text, ItemHSN, ItemTotal, ItemA1Zero, ItemNoCode}

\* The "TotalTax" and "InvoiceTotal" fields of a document.
Documents ==
    {[TotalTax |-> None, InvoiceTotal |-> Field(None, Some(-20), None)],
     [TotalTax |-> Field(Some(-10), None, None), InvoiceTotal |-> None],
     [TotalTax |-> Field(None, None, Str(<<"R", "1", ".", "1">>)), InvoiceTotal |-> Field(Some(21), None, None)]}

\* result.content
Texts ==
    {None,
     Str(<<"T", "o", "t", "a", "l", " ", "Q", "t", "y", "-", "1", " ", "G", "R", "O", "S", "S", " ", " ", "t", "o", "t", "a", "l", "4">>),
     Str(<<"t", "o", "t", "a", "l", " ", "q", "t", "y", ":", " ", "2", ".", "1">>)}

(***************************************************************************)
(* The state of one run of the script.                                     *)
(***************************************************************************)
VARIABLES
    pc,               \* where the script is
    ENDPOINT, KEY,    \* os.getenv("AZURE_ENDPOINT"), os.getenv("AZURE_KEY")
    tolerance,        \* the slider, in tenths
    excel_upload,     \* the uploaded sheet
    excel_df,         \* load_and_clean_excel(excel_upload)
    client,           \* the DocumentIntelligenceClient, once constructed
    analyze_calls,    \* calls of client.begin_analyze_document
    full_text,        \* result.content
    ndocs,            \* documents of result.documents iterated so far
    invoice,          \* the loop variable of the documents loop
    nitems,           \* items iterated so far, all documents together
    item,             \* the loop variable of the items loop
    all_line_items,
    summary,
    pdf_df, pdf_summary,   \* what extract_pdf_data returned
    comp_df,
    summary_results,
    accuracy,         \* the "Overall Accuracy" metric, in hundredths of a percent
    report,           \* the workbook offered for download
    error             \* the exception that ended the run

vars == <<pc, ENDPOINT, KEY, tolerance, excel_upload, excel_df, client, analyze_calls,
          full_text, ndocs, invoice, nitems, item, all_line_items, summary,
          pdf_df, pdf_summary, comp_df, summary_results, accuracy, report, error>>

env == <<ENDPOINT, KEY, tolerance, excel_upload>>
extraction == <<full_text, ndocs, invoice, nitems, item, all_line_items, summary>>
outputs == <<comp_df, summary_results, accuracy, report>>

(***************************************************************************)
(* The merge, the comparison and the grand totals.                         *)
(***************************************************************************)
\* Strictly below the tolerance.
ItemStatusStrict(total_pdf, total_excel) ==
    IF Abs(total_pdf - total_excel) < tolerance THEN "Match" ELSE "Mismatch"

\* "Match" if abs(x['Total_PDF'] - x['Total_EXCEL']) <= tolerance else "Mismatch"
ItemStatus(total_pdf, total_excel) ==
    IF Abs(total_pdf - total_excel) <= tolerance THEN "Match" ELSE "Mismatch"

CompRow(code, total_pdf, total_excel) ==
    [Material_Code |-> code, Total_PDF |-> total_pdf, Total_EXCEL |-> total_excel,
     Status |-> ItemStatus(total_pdf, total_excel)]

RECURSIVE Flatten(_)
Flatten(seqs) == IF seqs = <<>> THEN <<>> ELSE Head(seqs) \o Flatten(Tail(seqs))

\* pd.merge(left, right, on="Material Code", how="outer").fillna(0) with the
\* Status column: every pair of a left and a right row of equal code, the
\* left rows without partner and the right rows without partner, the
\* missing side 0.  (pandas orders the rows by key; nothing read here
\* depends on the order.)
OuterMerge(left, right) ==
    LET partners(p) == SelectSeq(right, LAMBDA r : r.Material_Code = p.Material_Code)
        of_left(p) ==
            IF partners(p) = <<>>
            THEN <<CompRow(p.Material_Code, p.Total_PDF, 0)>>
            ELSE [k \in 1..Len(partners(p)) |->
                    CompRow(p.Material_Code, p.Total_PDF, partners(p)[k].Total_EXCEL)]
        right_only == SelectSeq(right,
                        LAMBDA r : \A i \in 1..Len(left) : left[i].Material_Code # r.Material_Code)
    IN  Flatten([i \in 1..Len(left) |-> of_left(left[i])])
            \o [k \in 1..Len(right_only) |->
                    CompRow(right_only[k].Material_Code, 0, right_only[k].Total_EXCEL)]

\* df[col].sum()
RECURSIVE SumOf(_, _)
SumOf(df, col) == IF df = <<>> THEN 0 ELSE Head(df)[col] + SumOf(Tail(df), col)

\* The quantity row compared like the other two.
QuantityStatusTolerant(difference) ==
    IF Abs(difference) <= tolerance THEN "Match" ELSE "Mismatch"

\* "Match" if (...) == 0 else "Mismatch"
QuantityStatus(difference) == IF difference = 0 THEN "Match" ELSE "Mismatch"

\* "Match" if abs(...) <= tolerance else "Mismatch"
AmountStatus(difference) == IF Abs(difference) <= tolerance THEN "Match" ELSE "Mismatch"

Metric(name, pdf_data, excel_sum, status) ==
    [Metric |-> name, PDF_Data |-> pdf_data, Excel_Sum |-> excel_sum,
     Difference |-> pdf_data - excel_sum, Status |-> status]

GrandTotalsOf(s, df) ==
    LET qty == SumOf(df, "Qty_EXCEL")
        tax == SumOf(df, "Tax_EXCEL")
        total == SumOf(df, "Total_EXCEL")
    IN  <<Metric("Total Quantity", s.Gross_Total_Qty, qty, QuantityStatus(s.Gross_Total_Qty - qty)),
          Metric("Total Tax", s.Total_Tax_Footer, tax, AmountStatus(s.Total_Tax_Footer - tax)),
          Metric("Grand Total", s.Grand_Total_Footer, total, AmountStatus(s.Grand_Total_Footer - total))>>

\* (matches / rows) * 100 to two decimals, in hundredths of a percent
\* (rounded to the nearest), for rows > 0.
AccuracyOf(df) ==
    LET matches == Len(SelectSeq(df, LAMBDA r : r.Status = "Match"))
    IN  (2 * matches * 10000 + Len(df)) \div (2 * Len(df))

(***************************************************************************)
(* The script: the state once the page is up with both files uploaded,     *)
(* then the "Start Reconciliation" handler, statement by statement.        *)
(***************************************************************************)
Credentials == {None, Some("set")}

\* st.slider("Select Amount Tolerance", 0.0, 50.0, 10.0), in tenths: the low
\* end of the slider, one tenth above it, and the default.
SliderMin == 0
SliderDefault == 100
Tolerances == {SliderMin, SliderMin + 1, SliderDefault}

Init ==
    /\ pc = "idle"
    /\ ENDPOINT \in Credentials
    /\ KEY \in Credentials
    /\ tolerance \in Tolerances
    /\ excel_upload \in ExcelFiles
    /\ excel_df = None
    /\ client = None
    /\ analyze_calls = 0
    /\ full_text = None
    /\ ndocs = 0
    /\ invoice = None
    /\ nitems = 0
    /\ item = None
    /\ all_line_items = <<>>
    /\ summary = None
    /\ pdf_df = None
    /\ pdf_summary = None
    /\ comp_df = None
    /\ summary_results = None
    /\ accuracy = None
    /\ report = None
    /\ error = None

Fail(exc) == pc' = "failed" /\ error' = Some(exc)

\* excel_df = load_and_clean_excel(excel_upload)
LoadExcel ==
    /\ pc = "idle"
    /\ LET r == load_and_clean_excel(excel_upload)
       IN  /\ excel_df' = r.df
           /\ error' = r.error
           /\ pc' = IF r.error = None THEN "client" ELSE "failed"
    /\ UNCHANGED <<env, client, analyze_calls, extraction, pdf_df, pdf_summary, outputs>>

CredentialsSet == ENDPOINT # None /\ KEY # None

\* client = DocumentIntelligenceClient(ENDPOINT, AzureKeyCredential(KEY)).
\* The library decides what a None endpoint or key does: it raises here, or
\* hands out a client whose calls fail.
CreateClient ==
    /\ pc = "client"
    /\ \/ client' = Some("client") /\ pc' = "analyze" /\ UNCHANGED error
       \/ ~CredentialsSet /\ Fail("TypeError") /\ UNCHANGED client
    /\ UNCHANGED <<env, excel_df, analyze_calls, extraction, pdf_df, pdf_summary, outputs>>

\* begin_analyze_document / poller.result() raises.
AnalyzeFails ==
    /\ pc = "analyze"
    /\ analyze_calls' = analyze_calls + 1
    /\ Fail("HttpResponseError")
    /\ UNCHANGED <<env, excel_df, client, extraction, pdf_df, pdf_summary, outputs>>

\* result = poller.result(); all_line_items = []; summary = {...};
\* full_text = result.content
AnalyzeReturns ==
    /\ pc = "analyze"
    /\ CredentialsSet
    /\ analyze_calls' = analyze_calls + 1
    /\ all_line_items' = <<>>
    /\ summary' = Some([Gross_Total_Qty |-> 0, Total_Tax_Footer |-> 0, Grand_Total_Footer |-> 0])
    /\ full_text' \in Texts
    /\ pc' = "documents"
    /\ UNCHANGED <<env, excel_df, client, ndocs, invoice, nitems, item, pdf_df, pdf_summary,
                   outputs, error>>

\* for invoice in result.documents: one more document
NextDocument ==
    /\ pc = "documents"
    /\ ndocs < MaxDocs
    /\ ndocs' = ndocs + 1
    /\ \E d \in Documents : invoice' = Some(d)
    /\ pc' = "items"
    /\ UNCHANGED <<env, excel_df, client, analyze_calls, full_text, nitems, item, all_line_items,
                   summary, pdf_df, pdf_summary, outputs, error>>

\* for item in items.value_array: one more item, lines 82 to 102
NextItem ==
    /\ pc = "items"
    /\ nitems < MaxItems
    /\ nitems' = nitems + 1
    /\ \E it \in Items :
        /\ item' = Some(it)
        /\ all_line_items' =
            IF ItemKept(it, MaterialCodes(Val(excel_df)))
            THEN Append(all_line_items, LineItem(it))
            ELSE all_line_items
    /\ UNCHANGED <<env, excel_df, client, analyze_calls, full_text, ndocs, invoice, summary,
                   pdf_df, pdf_summary, outputs, error, pc>>

\* The items of the document (none when "Items" is missing or empty) are
\* through: the footer fields of this document go to the summary.
EndDocument ==
    /\ pc = "items"
    /\ summary' = Some(FooterOfDocument(Val(summary), Val(invoice)))
    /\ item' = None
    /\ pc' = "documents"
    /\ UNCHANGED <<env, excel_df, client, analyze_calls, full_text, ndocs, invoice, nitems,
                   all_line_items, pdf_df, pdf_summary, outputs, error>>

\* The documents are through: lines 107 to 109, and the locals are gone.
ReturnExtracted ==
    /\ pc = "documents"
    /\ pdf_summary' = Some([Val(summary) EXCEPT !.Gross_Total_Qty = extract_gross_total_qty(full_text)])
    /\ pdf_df' = Some(drop_duplicates(all_line_items))
    /\ full_text' = None
    /\ ndocs' = 0
    /\ invoice' = None
    /\ nitems' = 0
    /\ item' = None
    /\ all_line_items' = <<>>
    /\ summary' = None
    /\ pc' = "merge"
    /\ UNCHANGED <<env, excel_df, client, analyze_calls, outputs, error>>

\* comp_df = pd.merge(...).fillna(0); comp_df['Status'] = ...
\* A frame made from an empty list has no 'Material Code' column to merge on.
MergeCompare ==
    /\ pc = "merge"
    /\ IF Val(pdf_df) = <<>>
       THEN Fail("KeyError") /\ UNCHANGED comp_df
       ELSE /\ comp_df' = Some(OuterMerge(Val(pdf_df), Val(excel_df)))
            /\ pc' = "totals"
            /\ UNCHANGED error
    /\ UNCHANGED <<env, excel_df, client, analyze_calls, extraction, pdf_df, pdf_summary,
                   summary_results, accuracy, report>>

\* summary_results = pd.DataFrame([...])
GrandTotals ==
    /\ pc = "totals"
    /\ summary_results' = Some(GrandTotalsOf(Val(pdf_summary), Val(excel_df)))
    /\ pc' = "dashboard"
    /\ UNCHANGED <<env, excel_df, client, analyze_calls, extraction, pdf_df, pdf_summary,
                   comp_df, accuracy, report, error>>

\* st.metric("Overall Accuracy", ...) and the two tables
Dashboard ==
    /\ pc = "dashboard"
    /\ IF Len(Val(comp_df)) = 0
       THEN Fail("ZeroDivisionError") /\ UNCHANGED accuracy
       ELSE /\ accuracy' = Some(AccuracyOf(Val(comp_df)))
            /\ pc' = "export"
            /\ UNCHANGED error
    /\ UNCHANGED <<env, excel_df, client, analyze_calls, extraction, pdf_df, pdf_summary,
                   comp_df, summary_results, report>>

\* The workbook with the two sheets, and the download button.
Export ==
    /\ pc = "export"
    /\ report' = Some([Item_Comparison |-> Val(comp_df), Grand_Totals |-> Val(summary_results)])
    /\ pc' = "done"
    /\ UNCHANGED <<env, excel_df, client, analyze_calls, extraction, pdf_df, pdf_summary,
                   comp_df, summary_results, accuracy, error>>

Next ==
    \/ LoadExcel
    \/ CreateClient
    \/ AnalyzeFails
    \/ AnalyzeReturns
    \/ NextDocument
    \/ NextItem
    \/ EndDocument
    \/ ReturnExtracted
    \/ MergeCompare
    \/ GrandTotals
    \/ Dashboard
    \/ Export

Spec == Init /\ [][Next]_vars

(***************************************************************************)
(* Properties.                                                             *)
(***************************************************************************)
Total == <<"t", "o", "t", "a", "l">>

\* The set of Material Codes of a cleaned sheet.
CodeSet(df) == {df[i].Material_Code : i \in 1..Len(df)}

\* The set of codes of the line items of a frame or list.
CodesOf(rows) == {rows[i].Material_Code : i \in 1..Len(rows)}

Rows(df) == {df[i] : i \in 1..Len(df)}

IsPrefix(s, t) == Len(s) <= Len(t) /\ SubSeq(t, 1, Len(s)) = s

\* The candidate the items loop has just been through, when it has a code.
Candidate == pc = "items" /\ item # None /\ ~NoProductCode(Val(item))

\* C1: every line item collected or returned by extract_pdf_data, and every
\* document-side amount in the comparison, has a code that is one of the
\* Material Codes the Normalizer produced for the run.
C1_NoFalseAdmission ==
    excel_df # None =>
        /\ CodesOf(all_line_items) \subseteq CodeSet(Val(excel_df))
        /\ pdf_df # None => CodesOf(Val(pdf_df)) \subseteq CodeSet(Val(excel_df))
        /\ comp_df # None =>
             \A r \in Rows(Val(comp_df)) :
                r.Total_PDF # 0 => r.Material_Code \in CodeSet(Val(excel_df))

\* C1 witness: a candidate with a non-zero amount whose code is not in the
\* sheet has just been through the loop and was not emitted, after another
\* candidate was.
C1_Witness ==
    /\ Candidate
    /\ ItemCode(Val(item)) \notin CodeSet(Val(excel_df))
    /\ clean_num_strict(Val(item).Amount) # 0
    /\ Len(all_line_items) = 1
    /\ nitems = 2

\* C2: every comparison row is Match exactly when the absolute difference
\* of its two amounts is at most the tolerance.
C2_ToleranceBoundary ==
    comp_df # None =>
        \A r \in Rows(Val(comp_df)) :
            (r.Status = "Match") <=> (Abs(r.Total_PDF - r.Total_EXCEL) <= tolerance)

\* C2 witness: one comparison holds a row whose difference equals the
\* tolerance, classified Match, and a row one unit above it, classified
\* Mismatch.
C2_Witness ==
    /\ comp_df # None
    /\ \E r \in Rows(Val(comp_df)) :
        Abs(r.Total_PDF - r.Total_EXCEL) = tolerance /\ r.Status = "Match"
    /\ \E r \in Rows(Val(comp_df)) :
        Abs(r.Total_PDF - r.Total_EXCEL) = tolerance + 1 /\ r.Status = "Mismatch"

\* C3: the Total Quantity row is Match exactly when the document quantity
\* minus the sum of the sheet's quantity column is 0, whatever the
\* tolerance; the Total Tax and Grand Total rows are Match exactly when the
\* absolute difference is at most the tolerance.
C3_QuantityIgnoresTolerance ==
    summary_results # None =>
        LET q == Val(summary_results)[1]
            t == Val(summary_results)[2]
            g == Val(summary_results)[3]
            df == Val(excel_df)
        IN  /\ q.Metric = "Total Quantity"
            /\ q.Difference = Val(pdf_summary).Gross_Total_Qty - SumOf(df, "Qty_EXCEL")
            /\ (q.Status = "Match") <=> (q.Difference = 0)
            /\ t.Metric = "Total Tax"
            /\ t.Difference = Val(pdf_summary).Total_Tax_Footer - SumOf(df, "Tax_EXCEL")
            /\ (t.Status = "Match") <=> (Abs(t.Difference) <= tolerance)
            /\ g.Metric = "Grand Total"
            /\ g.Difference = Val(pdf_summary).Grand_Total_Footer - SumOf(df, "Total_EXCEL")
            /\ (g.Status = "Match") <=> (Abs(g.Difference) <= tolerance)

\* C3 witness: a quantity difference that is not 0 but within the tolerance
\* is Mismatch, next to a tax difference that is not 0, within the
\* tolerance, and Match.
C3_Witness ==
    /\ summary_results # None
    /\ LET q == Val(summary_results)[1]
           t == Val(summary_results)[2]
       IN  /\ q.Difference # 0 /\ Abs(q.Difference) <= tolerance /\ q.Status = "Mismatch"
           /\ t.Difference # 0 /\ Abs(t.Difference) <= tolerance /\ t.Status = "Match"

\* C4 (the claim as stated): a run with no spreadsheet record and no kept
\* line item does not end in an error.
C4_EmptyInputAccuracyDefined ==
    (excel_df # None /\ Val(excel_df) = <<>> /\ pdf_df # None /\ Val(pdf_df) = <<>>)
        => pc # "failed"

\* C5 (the claim as stated): the comparison holds exactly one row for each
\* code of the union of the codes of the two sources.
C5_OneRowPerCode ==
    comp_df # None =>
        /\ CodesOf(Val(comp_df)) = CodesOf(Val(pdf_df)) \cup CodeSet(Val(excel_df))
        /\ Len(Val(comp_df)) = Cardinality(CodesOf(Val(pdf_df)) \cup CodeSet(Val(excel_df)))

\* C6 (the claim as stated): once extraction has returned and the merge
\* statement has run, every spreadsheet record whose code has no kept line
\* item is in the comparison with 0 from the document and its total from
\* the sheet.
C6_OuterJoinZeroFill ==
    (pdf_df # None /\ pc # "merge") =>
        /\ comp_df # None
        /\ \A r \in Rows(Val(excel_df)) :
              r.Material_Code \notin CodesOf(Val(pdf_df)) =>
                 \E c \in Rows(Val(comp_df)) :
                    /\ c.Material_Code = r.Material_Code
                    /\ c.Total_PDF = 0
                    /\ c.Total_EXCEL = r.Total_EXCEL

\* C7: once the handler has started on a sheet without a row that has 'SKU'
\* in a cell, the run has failed with the Normalizer's error: no records,
\* no client, no service call, no comparison, totals, accuracy or report.
C7_MissingHeaderIsFatal ==
    (pc # "idle" /\ \A i \in 1..Len(excel_upload) : ~RowHasMarker(excel_upload[i])) =>
        /\ pc = "failed"
        /\ error = Some("IndexError")
        /\ excel_df = None
        /\ client = None
        /\ analyze_calls = 0
        /\ pdf_df = None /\ pdf_summary = None
        /\ comp_df = None /\ summary_results = None /\ accuracy = None /\ report = None

\* C7 witness: the run on a sheet with data rows but no marker has failed.
C7_Witness ==
    /\ pc = "failed"
    /\ error = Some("IndexError")
    /\ Len(excel_upload) > 2
    /\ \A i \in 1..Len(excel_upload) : ~RowHasMarker(excel_upload[i])

\* C8 (the claim as stated): with the endpoint or the key missing from the
\* environment, the sheet is never normalized and the client is never
\* constructed or called.
C8_MissingCredentialsFailFast ==
    ~CredentialsSet => (excel_df = None /\ client = None /\ analyze_calls = 0)

\* C9: no line item collected or returned by extract_pdf_data has amount 0
\* or a code whose lower-case form contains "total", and no comparison row
\* of such a code carries a document-side amount.
C9_FooterNoiseSuppressed ==
    /\ \A r \in Rows(all_line_items) :
          r.Total_PDF # 0 /\ ~Contains(Lower(r.Material_Code), Total)
    /\ pdf_df # None =>
          \A r \in Rows(Val(pdf_df)) :
             r.Total_PDF # 0 /\ ~Contains(Lower(r.Material_Code), Total)
    /\ comp_df # None =>
          \A r \in Rows(Val(comp_df)) :
             Contains(Lower(r.Material_Code), Total) => r.Total_PDF = 0

\* C9 witness: a candidate whose code is in the sheet and whose amount is 0
\* has just been through the loop, the second of two candidates, and
\* nothing was emitted; the sheet also lists a code that contains "total".
C9_Witness ==
    /\ Candidate
    /\ ItemCode(Val(item)) \in CodeSet(Val(excel_df))
    /\ clean_num_strict(Val(item).Amount) = 0
    /\ \E c \in CodeSet(Val(excel_df)) : Contains(Lower(c), Total)
    /\ nitems = 2
    /\ all_line_items = <<>>

\* The footer figures the summary must hold after ndocs documents.
LastDocumentFooter ==
    IF ndocs = 0
    THEN [tax |-> 0, total |-> 0]
    ELSE [tax |-> clean_num_strict(Val(invoice).TotalTax),
          total |-> clean_num_strict(Val(invoice).InvoiceTotal)]

\* C10: between documents the summary's tax and grand total are those of
\* the last document iterated (0 for a field it lacks, 0 with no document);
\* extract_pdf_data returns those figures; and the line items collected
\* from earlier documents stay collected while later ones are iterated and
\* are what is returned, duplicates dropped.
C10_LastDocumentWins ==
    /\ [](pc = "documents" =>
            /\ Val(summary).Total_Tax_Footer = LastDocumentFooter.tax
            /\ Val(summary).Grand_Total_Footer = LastDocumentFooter.total)
    /\ [][(pc = "documents" /\ pc' = "merge") =>
            /\ Val(pdf_summary').Total_Tax_Footer = LastDocumentFooter.tax
            /\ Val(pdf_summary').Grand_Total_Footer = LastDocumentFooter.total
            /\ CodesOf(Val(pdf_df')) = CodesOf(all_line_items)
            /\ Rows(Val(pdf_df')) = Rows(all_line_items)]_vars
    /\ [][(pc \in {"documents", "items"} /\ pc' \in {"documents", "items"}) =>
            IsPrefix(all_line_items, all_line_items')]_vars

\* C10 witness: the second document, which lacks "TotalTax", has been
\* iterated: the summary holds 0 for the tax and that document's invoice
\* total, and line items of the result are collected.
C10_Witness ==
    /\ pc = "documents"
    /\ ndocs = 2
    /\ Val(invoice).TotalTax = None
    /\ Val(invoice).InvoiceTotal # None
    /\ Val(summary).Total_Tax_Footer = 0
    /\ Val(summary).Grand_Total_Footer = clean_num_strict(Val(invoice).InvoiceTotal)
    /\ Val(summary).Grand_Total_Footer # 0
    /\ Len(all_line_items) = 2

====
